---- MODULE Spec2Model ----
(***************************************************************************)
(* Board / column / task consistency model of the task-manager backend.    *)
(* Strings are sequences of one-character strings, so that the regular     *)
(* expressions, toLowerCase and template strings of the handlers can be    *)
(* computed.  An ObjectId is its 24-character lowercase hex string.        *)
(***************************************************************************)
EXTENDS Integers, Sequences, FiniteSets, TLC

VARIABLES boards, tasks, nextBoard, nextTask, last, inflight, now, updatedAt

vars == <<boards, tasks, nextBoard, nextTask, last, inflight, now, updatedAt>>

(***************************************************************************)
(* Bounds of the model.                                                    *)
(***************************************************************************)
MaxBoards == 2
MaxTasks == 2
MaxPad == 2
MaxList == 2

(***************************************************************************)
(* Characters and strings.                                                 *)
(***************************************************************************)
DigitChars == <<"0", "1", "2", "3", "4", "5", "6", "7", "8", "9">>
LowerChars == <<"a", "b", "c", "d", "e", "f", "g", "h", "i", "j", "k", "l", "m",
                "n", "o", "p", "q", "r", "s", "t", "u", "v", "w", "x", "y", "z">>
UpperChars == <<"A", "B", "C", "D", "E", "F", "G", "H", "I", "J", "K", "L", "M",
                "N", "O", "P", "Q", "R", "S", "T", "U", "V", "W", "X", "Y", "Z">>

Range(s) == {s[i] : i \in 1..Len(s)}

HexCharSet ==
  Range(DigitChars) \cup {LowerChars[i] : i \in 1..6} \cup {UpperChars[i] : i \in 1..6}

LowerCharSet == Range(LowerChars)

LowerOf == [c \in Range(UpperChars) |->
              LowerChars[CHOOSE i \in 1..26 : UpperChars[i] = c]]

UpperOf == [c \in Range(LowerChars) |->
              UpperChars[CHOOSE i \in 1..26 : LowerChars[i] = c]]

\* the character class [0-9a-f] under the i flag
IsHexChar(c) == c \in HexCharSet

\* the character class [a-z]
IsLowerAlpha(c) == c \in LowerCharSet

ToLowerChar(c) == IF c \in DOMAIN LowerOf THEN LowerOf[c] ELSE c

ToUpperChar(c) == IF c \in DOMAIN UpperOf THEN UpperOf[c] ELSE c

\* String.prototype.toLowerCase
toLowerCase(s) == [i \in 1..Len(s) |-> ToLowerChar(s[i])]

\* /^[a-z]+$/.test(s)
IsSimpleWord(s) == Len(s) > 0 /\ \A i \in 1..Len(s) : IsLowerAlpha(s[i])

\* s.replace(/[^0-9]/g, ''): a replace that forgets the letters a-f
stripNonDigits(s) == LET IsDigit(c) == c \in Range(DigitChars) IN SelectSeq(s, IsDigit)

\* s.replace(/[^0-9a-f]/gi, '')
stripNonHex(s) == SelectSeq(s, IsHexChar)

IdLen == 24

\* s.match(/[0-9a-f]{24}/i): the start of the leftmost run, 0 when none
hexMatchAt(s) ==
  LET starts == {i \in 1..(Len(s) - IdLen + 1) :
                   \A j \in i..(i + IdLen - 1) : IsHexChar(s[j])}
  IN IF starts = {} THEN 0
     ELSE CHOOSE i \in starts : \A k \in starts : i <= k

\* utils.js cleanObjectIdString; '' models the empty result
cleanObjectIdString(id) ==
  IF Len(id) = 0 THEN <<>>
  ELSE LET at == hexMatchAt(id)
       IN IF at > 0 THEN SubSeq(id, at, at + IdLen - 1)
          ELSE stripNonHex(id)

NoId == <<>>

\* mongoose.Types.ObjectId(hex).toString(): the lowercase hex string
oidOfHex(hex) == toLowerCase(hex)

HexDigitChars == DigitChars \o SubSeq(LowerChars, 1, 6)

\* the two lowercase hex digits of a character code below 128
hexOfCode(n) == <<HexDigitChars[(n \div 16) + 1], HexDigitChars[(n % 16) + 1]>>

\* the character code of c, for the characters of the model: digits,
\* letters, and the quote, dash and space of the paddings
charCode(c) ==
  IF c \in Range(DigitChars) THEN 47 + CHOOSE k \in 1..10 : DigitChars[k] = c
  ELSE IF c \in Range(LowerChars) THEN 96 + CHOOSE k \in 1..26 : LowerChars[k] = c
  ELSE IF c \in Range(UpperChars) THEN 64 + CHOOSE k \in 1..26 : UpperChars[k] = c
  ELSE IF c = "'" THEN 39
  ELSE IF c = "-" THEN 45
  ELSE 32

charCodeHex(c) == hexOfCode(charCode(c))

\* mongoose.Types.ObjectId(s) for a string of 12 characters: the bytes of
\* the string are the id
RECURSIVE oidOfBytes(_)
oidOfBytes(s) ==
  IF Len(s) = 0 THEN <<>> ELSE charCodeHex(Head(s)) \o oidOfBytes(Tail(s))

ByteLen == 12

\* utils.js toObjectId; NoId models null
toObjectId(id) ==
  IF Len(id) = 0 THEN NoId
  ELSE LET cleaned == stripNonHex(id)
       IN IF Len(cleaned) = IdLen THEN oidOfHex(cleaned)
          ELSE IF Len(id) = ByteLen THEN oidOfBytes(id)
          ELSE NoId

\* models/Task.js safeObjectId followed by the schema's ObjectId cast:
\* NoId models the cast error of a value that could not be converted
safeObjectId(v) ==
  IF Len(v) = 0 THEN NoId
  ELSE LET cleaned == stripNonHex(v)
       IN IF Len(cleaned) = IdLen THEN oidOfHex(cleaned)
          ELSE IF Len(v) = ByteLen THEN oidOfBytes(v)
          ELSE NoId

(***************************************************************************)
(* String literals of the handlers.                                        *)
(***************************************************************************)
S_column1 == <<"c", "o", "l", "u", "m", "n", "-", "1">>
S_column2 == <<"c", "o", "l", "u", "m", "n", "-", "2">>
S_column3 == <<"c", "o", "l", "u", "m", "n", "-", "3">>
S_columnDash == <<"c", "o", "l", "u", "m", "n", "-">>
S_colDash == <<"c", "o", "l", "-">>
S_Column == <<"C", "o", "l", "u", "m", "n", " ">>
S_todo == <<"t", "o", "d", "o">>
S_to_do == <<"t", "o", "-", "d", "o">>
S_to_do2 == <<"t", "o", "_", "d", "o">>
S_inprogress == <<"i", "n", "-", "p", "r", "o", "g", "r", "e", "s", "s">>
S_inprogress2 == <<"i", "n", "p", "r", "o", "g", "r", "e", "s", "s">>
S_inprogress3 == <<"i", "n", "_", "p", "r", "o", "g", "r", "e", "s", "s">>
S_done == <<"d", "o", "n", "e">>
S_completed == <<"c", "o", "m", "p", "l", "e", "t", "e", "d">>
S_finished == <<"f", "i", "n", "i", "s", "h", "e", "d">>
S_ToDo == <<"T", "o", " ", "D", "o">>
S_InProgress == <<"I", "n", " ", "P", "r", "o", "g", "r", "e", "s", "s">>
S_Done == <<"D", "o", "n", "e">>

\* `${index + 1}` for the indexes the model uses
numStr(n) == <<DigitChars[n + 1]>>

Col(id, title) == [id |-> id, title |-> title, taskIds |-> <<>>]

\* the columns of models/Board.js getStandardColumns, which the create-board
\* route does not call
StandardColumns ==
  <<Col(S_todo, S_ToDo), Col(S_inprogress, S_InProgress), Col(S_done, S_Done)>>

\* routes/boardRoutes.js: the columns a board gets when none are supplied
DefaultColumns ==
  <<Col(S_column1, S_ToDo), Col(S_column2, S_InProgress), Col(S_column3, S_Done)>>

\* server.js simple-create-task: the columns written to a board without any
SimpleDefaultColumns ==
  <<Col(S_todo, S_ToDo), Col(S_inprogress, S_InProgress), Col(S_done, S_Done)>>

(***************************************************************************)
(* The document store: two collections keyed by ObjectId.                  *)
(***************************************************************************)
EmptyCollection == [x \in {} |-> 0]

Put(f, k, v) == [x \in (DOMAIN f) \cup {k} |-> IF x = k THEN v ELSE f[x]]

Del(f, k) == [x \in (DOMAIN f) \ {k} |-> f[x]]

\* new ObjectId(): ids are never handed out twice
BoardIdOf(n) == [i \in 1..IdLen |-> LowerChars[n]]

TaskIdOf(n) == [i \in 1..IdLen |-> DigitChars[n + 1]]

Without(seq, t) == LET Keep(x) == x # t IN SelectSeq(seq, Keep)

\* { $pull: { 'columns.$[elem].taskIds': t } }, arrayFilters elem.id = colId
pullFromColumns(cols, colId, t) ==
  [i \in 1..Len(cols) |->
     IF cols[i].id = colId
     THEN [cols[i] EXCEPT !.taskIds = Without(@, t)]
     ELSE cols[i]]

\* { $push: { 'columns.$[elem].taskIds': t } }, arrayFilters elem.id = colId
pushToColumns(cols, colId, t) ==
  [i \in 1..Len(cols) |->
     IF cols[i].id = colId
     THEN [cols[i] EXCEPT !.taskIds = Append(@, t)]
     ELSE cols[i]]

FirstIndex(S) == IF S = {} THEN 0 ELSE CHOOSE i \in S : \A k \in S : i <= k

\* { "columns.id": colId } with { $push: { "columns.$.taskIds": t } }: the
\* positional operator addresses the first matching element only
pushToFirstColumn(cols, colId, t) ==
  LET at == FirstIndex({i \in 1..Len(cols) : cols[i].id = colId})
  IN [i \in 1..Len(cols) |->
        IF i = at
        THEN [cols[i] EXCEPT !.taskIds = Append(@, t)]
        ELSE cols[i]]

\* Board.findByIdAndUpdate(b, ...): no document, no write, no error
updateColumns(bs, b, cols) ==
  IF b \in DOMAIN bs THEN [bs EXCEPT ![b].columns = cols] ELSE bs

boardPull(bs, b, colId, t) ==
  IF b \in DOMAIN bs
  THEN updateColumns(bs, b, pullFromColumns(bs[b].columns, colId, t))
  ELSE bs

boardPush(bs, b, colId, t) ==
  IF b \in DOMAIN bs
  THEN updateColumns(bs, b, pushToColumns(bs[b].columns, colId, t))
  ELSE bs

(***************************************************************************)
(* What a handler leaves behind: the stores, the id counters and a record  *)
(* of the call: the operation, the file that handled it, the response      *)
(* status, the ids and the column it was about, the store writes it        *)
(* issued, deleteMany's count, the number of columns in the request, and   *)
(* the boardId as the body of a matching CreateTask sent it.               *)
(***************************************************************************)
NoCount == 0 - 1

Call(op, impl) ==
  [op |-> op, impl |-> impl, resp |-> 0, board |-> NoId, task |-> NoId,
   col |-> <<>>, writes |-> <<>>, count |-> NoCount, given |-> 0,
   repeat |-> "no", sent |-> NoId]

Outcome(bs, ts, nb, nt, call) ==
  [boards |-> bs, tasks |-> ts, nextBoard |-> nb, nextTask |-> nt,
   last |-> call]

\* the model stops following a column list that outgrows MaxList
Bounded(bs) ==
  \A b \in DOMAIN bs : \A i \in 1..Len(bs[b].columns) :
    Len(bs[b].columns[i].taskIds) <= MaxList

\* whether a successful MoveTask comes right after a successful MoveTask of
\* the same task to the same column, and whether that one wrote
Repeats(call) ==
  IF /\ call.op = "MoveTask"
     /\ call.resp = 200
     /\ last.op = "MoveTask"
     /\ last.resp = 200
     /\ last.task = call.task
     /\ last.col = call.col
  THEN IF Len(last.writes) > 0 THEN "afterMove" ELSE "afterNoOp"
  ELSE "no"

Apply(outcome) ==
  \E o \in {outcome} :
    /\ Bounded(o.boards)
    /\ o.nextBoard <= MaxBoards
    /\ o.nextTask <= MaxTasks
    /\ boards' = o.boards
    /\ tasks' = o.tasks
    /\ nextBoard' = o.nextBoard
    /\ nextTask' = o.nextTask
    /\ last' = [o.last EXCEPT !.repeat = Repeats(o.last)]
    /\ UNCHANGED <<inflight, now, updatedAt>>

(***************************************************************************)
(* routes/taskRoutes.js                                                    *)
(***************************************************************************)
NewTask(b, c) == [boardId |-> b, columnId |-> c]

\* router.post('/tasks'): save the task as sent, then push its id to the
\* columns of its board whose id equals the task's columnId
createTask(bs, ts, nb, nt, hasTitle, rawBoard, col) ==
  LET b == safeObjectId(rawBoard)
      t == TaskIdOf(nt + 1)
      call == Call("CreateTask", "taskRoutes")
  IN IF ~hasTitle \/ b = NoId \/ Len(col) = 0
     THEN Outcome(bs, ts, nb, nt, [call EXCEPT !.resp = 500])
     ELSE Outcome(boardPush(bs, b, col, t), Put(ts, t, NewTask(b, col)),
                  nb, nt + 1,
                  [call EXCEPT !.resp = 201, !.board = b, !.task = t,
                               !.col = col,
                               !.writes = <<"saveTask", "pushBoard">>])

\* router.put('/tasks/:id') with a columnId among the updated fields
\* rawBoard and col are the boardId and the columnId of the body, <<>> for
\* a field the body does not have; the boardId goes through the schema's
\* setter and a value it cannot convert fails the cast
updateTask(bs, ts, nb, nt, t, rawBoard, col) ==
  LET call == Call("UpdateTask", "taskRoutes")
      b == safeObjectId(rawBoard)
  IN IF Len(rawBoard) > 0 /\ b = NoId
     THEN Outcome(bs, ts, nb, nt, [call EXCEPT !.resp = 500])
     ELSE IF t \notin DOMAIN ts
     THEN Outcome(bs, ts, nb, nt, [call EXCEPT !.resp = 404])
     ELSE Outcome(bs,
                  [ts EXCEPT ![t].boardId = IF Len(rawBoard) = 0 THEN @ ELSE b,
                             ![t].columnId = IF Len(col) = 0 THEN @ ELSE col],
                  nb, nt,
                  [call EXCEPT !.resp = 200, !.board = ts[t].boardId,
                               !.task = t, !.col = col,
                               !.writes = <<"updateTask">>])

\* router.delete('/tasks/:id')
deleteTask(bs, ts, nb, nt, t) ==
  LET call == Call("DeleteTask", "taskRoutes")
  IN IF t \notin DOMAIN ts
     THEN Outcome(bs, ts, nb, nt, [call EXCEPT !.resp = 404])
     ELSE Outcome(boardPull(bs, ts[t].boardId, ts[t].columnId, t),
                  Del(ts, t), nb, nt,
                  [call EXCEPT !.resp = 200, !.board = ts[t].boardId,
                               !.task = t,
                               !.writes = <<"pullBoard", "removeTask">>])

\* router.patch('/tasks/:id/move') without the early return for a task that
\* is already in the requested column
moveTaskAlways(bs, ts, nb, nt, t, col) ==
  LET call == Call("MoveTask", "taskRoutes")
  IN IF Len(col) = 0
     THEN Outcome(bs, ts, nb, nt, [call EXCEPT !.resp = 400])
     ELSE IF t \notin DOMAIN ts
     THEN Outcome(bs, ts, nb, nt, [call EXCEPT !.resp = 404])
     ELSE LET b == ts[t].boardId
              pulled == boardPull(bs, b, ts[t].columnId, t)
              pushed == boardPush(pulled, b, col, t)
          IN Outcome(pushed, [ts EXCEPT ![t].columnId = col], nb, nt,
                     [call EXCEPT !.resp = 200, !.board = b, !.task = t,
                                  !.col = col,
                                  !.writes = <<"pullBoard", "pushBoard",
                                               "saveTask">>])

\* router.patch('/tasks/:id/move') with the columnId checked after the task
\* was taken out of its column
moveTaskValidatesLate(bs, ts, nb, nt, t, col) ==
  LET call == Call("MoveTask", "taskRoutes")
  IN IF t \notin DOMAIN ts
     THEN Outcome(bs, ts, nb, nt, [call EXCEPT !.resp = IF Len(col) = 0 THEN 400 ELSE 404])
     ELSE IF Len(col) = 0
     THEN Outcome(boardPull(bs, ts[t].boardId, ts[t].columnId, t), ts, nb, nt,
                  [call EXCEPT !.resp = 400])
     ELSE moveTaskAlways(bs, ts, nb, nt, t, col)

\* router.patch('/tasks/:id/move')
moveTask(bs, ts, nb, nt, t, col) ==
  LET call == Call("MoveTask", "taskRoutes")
  IN IF Len(col) = 0
     THEN Outcome(bs, ts, nb, nt, [call EXCEPT !.resp = 400])
     ELSE IF t \notin DOMAIN ts
     THEN Outcome(bs, ts, nb, nt, [call EXCEPT !.resp = 404])
     ELSE IF ts[t].columnId = col
     THEN Outcome(bs, ts, nb, nt,
                  [call EXCEPT !.resp = 200, !.board = ts[t].boardId,
                               !.task = t, !.col = col])
     ELSE LET b == ts[t].boardId
              oldColumnId == ts[t].columnId
              pulled == boardPull(bs, b, oldColumnId, t)
              pushed == boardPush(pulled, b, col, t)
          IN Outcome(pushed, [ts EXCEPT ![t].columnId = col], nb, nt,
                     [call EXCEPT !.resp = 200, !.board = b, !.task = t,
                                  !.col = col,
                                  !.writes = <<"pullBoard", "pushBoard",
                                               "saveTask">>])

(***************************************************************************)
(* routes/boardRoutes.js                                                   *)
(***************************************************************************)
\* the map over the supplied columns: a missing id becomes column-<index+1>,
\* a missing title Column <index+1>, a missing taskIds []
repairColumns(cols) ==
  [i \in 1..Len(cols) |->
     [id |-> IF Len(cols[i].id) = 0 THEN S_columnDash \o numStr(i)
             ELSE cols[i].id,
      title |-> IF Len(cols[i].title) = 0 THEN S_Column \o numStr(i)
                ELSE cols[i].title,
      taskIds |-> <<>>]]

\* router.post('/boards'): cols = <<>> models columns omitted or empty
createBoard(bs, ts, nb, nt, hasTitle, cols) ==
  LET b == BoardIdOf(nb + 1)
      columns == IF Len(cols) = 0 THEN DefaultColumns ELSE repairColumns(cols)
      call == Call("CreateBoard", "boardRoutes")
  IN IF ~hasTitle
     THEN Outcome(bs, ts, nb, nt, [call EXCEPT !.resp = 500])
     ELSE Outcome(Put(bs, b, [columns |-> columns]), ts, nb + 1, nt,
                  [call EXCEPT !.resp = 201, !.board = b,
                               !.given = Len(cols),
                               !.writes = <<"saveBoard">>])

TasksOfBoard(ts, b) == {t \in DOMAIN ts : ts[t].boardId = b}

\* Task.deleteMany({}): a delete whose filter is lost
deleteTasksOfAnyBoard(ts, b) == EmptyCollection

\* Task.deleteMany({ boardId: b })
deleteTasksOfBoard(ts, b) ==
  [t \in (DOMAIN ts) \ TasksOfBoard(ts, b) |-> ts[t]]

\* router.delete('/boards/:id')
deleteBoard(bs, ts, nb, nt, b) ==
  LET call == Call("DeleteBoard", "boardRoutes")
  IN IF b \notin DOMAIN bs
     THEN Outcome(bs, ts, nb, nt, [call EXCEPT !.resp = 404])
     ELSE Outcome(Del(bs, b), deleteTasksOfBoard(ts, b), nb, nt,
                  [call EXCEPT !.resp = 200, !.board = b,
                               !.writes = <<"deleteTasks", "deleteBoard">>])

(***************************************************************************)
(* The column matching of the task-creation handlers.                      *)
(***************************************************************************)
NoColumn == [found |-> FALSE, id |-> <<>>]

Matched(id) == [found |-> TRUE, id |-> id]

\* the matching chain with the title compared before the lowercased id
resolveColumnTitleFirst(cols, requested) ==
  LET idx == 1..Len(cols)
      exact == FirstIndex({i \in idx : cols[i].id = requested})
      lower == FirstIndex({i \in idx :
                 toLowerCase(cols[i].id) = toLowerCase(requested)})
      title == FirstIndex({i \in idx :
                 toLowerCase(cols[i].title) = toLowerCase(requested)})
      matchingColumn == IF title > 0 THEN title ELSE lower
  IN IF exact > 0 THEN Matched(requested)
     ELSE IF matchingColumn > 0 THEN Matched(cols[matchingColumn].id)
     ELSE IF Len(cols) > 0 THEN Matched(cols[1].id)
     ELSE NoColumn

\* the matching chain without its last step, the first column
resolveColumnNoFallback(cols, requested) ==
  LET idx == 1..Len(cols)
      exact == FirstIndex({i \in idx : cols[i].id = requested})
      lower == FirstIndex({i \in idx :
                 toLowerCase(cols[i].id) = toLowerCase(requested)})
  IN IF exact > 0 THEN Matched(requested)
     ELSE IF lower > 0 THEN Matched(cols[lower].id)
     ELSE NoColumn

\* router.post('/tasks') of the revisions with column matching: exact id,
\* lowercased id, lowercased title, common formats, first column
resolveColumn(cols, requested) ==
  LET idx == 1..Len(cols)
      exact == FirstIndex({i \in idx : cols[i].id = requested})
      lower == FirstIndex({i \in idx :
                 toLowerCase(cols[i].id) = toLowerCase(requested)})
      title == FirstIndex({i \in idx :
                 toLowerCase(cols[i].title) = toLowerCase(requested)})
      commonFormats == {S_columnDash \o requested, S_colDash \o requested,
                        requested}
      format == IF IsSimpleWord(requested)
                THEN FirstIndex({i \in idx : \E f \in commonFormats :
                       cols[i].id = f \/ toLowerCase(cols[i].id) = f})
                ELSE 0
      matchingColumn == IF lower > 0 THEN lower
                        ELSE IF title > 0 THEN title
                        ELSE format
  IN IF exact > 0 THEN Matched(requested)
     ELSE IF matchingColumn > 0 THEN Matched(cols[matchingColumn].id)
     ELSE IF Len(cols) > 0 THEN Matched(cols[1].id)
     ELSE NoColumn

\* server.js simple-create-task: columnMap, in the order of its entries
columnMap ==
  << <<S_todo, S_to_do, S_to_do2, S_column1>>,
     <<S_inprogress, S_inprogress2, S_inprogress3, S_column2>>,
     <<S_done, S_completed, S_finished, S_column3>> >>

\* server.js simple-create-task: direct match, the alternatives of the
\* concept the request belongs to, the first column; NoColumn when the
\* board has no columns
matchColumn(cols, columnId) ==
  LET idx == 1..Len(cols)
      direct == FirstIndex({i \in idx : cols[i].id = columnId})
      concept == FirstIndex({k \in 1..Len(columnMap) :
                   columnId \in Range(columnMap[k])})
      altId == IF concept = 0 THEN 0
               ELSE FirstIndex({a \in 1..Len(columnMap[concept]) :
                      \E i \in idx : cols[i].id = columnMap[concept][a]})
      alt == IF altId = 0 THEN 0
             ELSE FirstIndex({i \in idx :
                    cols[i].id = columnMap[concept][altId]})
  IN IF Len(cols) = 0 THEN NoColumn
     ELSE IF direct > 0 THEN Matched(cols[direct].id)
     ELSE IF alt > 0 THEN Matched(cols[alt].id)
     ELSE Matched(cols[1].id)

(***************************************************************************)
(* Task creation with column matching (the revision of the task routes     *)
(* that cleans the board id and matches the column).                       *)
(***************************************************************************)
\* mongoose.Types.ObjectId.isValid on the strings of the model, none of
\* which is 12 characters long
isValidObjectId(s) == Len(s) = IdLen /\ \A i \in 1..Len(s) : IsHexChar(s[i])

\* pick is the board an unsorted Board.find().limit(10) returns first
createTaskMatching(bs, ts, nb, nt, hasTitle, rawBoard, col, pick) ==
  LET call == [Call("CreateTask", "taskRoutesMatching") EXCEPT !.sent = rawBoard]
      cleanedId == stripNonHex(rawBoard)
      boardId == IF isValidObjectId(rawBoard) THEN oidOfHex(rawBoard)
                 ELSE IF Len(cleanedId) = IdLen THEN oidOfHex(cleanedId)
                 ELSE IF DOMAIN bs # {} THEN pick
                 ELSE NoId
      t == TaskIdOf(nt + 1)
  IN IF ~hasTitle \/ Len(rawBoard) = 0 \/ Len(col) = 0 \/ boardId = NoId
     THEN Outcome(bs, ts, nb, nt, [call EXCEPT !.resp = 400])
     ELSE IF boardId \notin DOMAIN bs
     THEN Outcome(Put(bs, BoardIdOf(nb + 1), [columns |-> DefaultColumns]),
                  ts, nb + 1, nt,
                  [call EXCEPT !.resp = 400, !.board = BoardIdOf(nb + 1),
                               !.writes = <<"saveBoard">>])
     ELSE LET r == resolveColumn(bs[boardId].columns, col)
          IN IF ~r.found
             THEN Outcome(bs, ts, nb, nt, [call EXCEPT !.resp = 404])
             ELSE Outcome(boardPush(bs, boardId, r.id, t),
                          Put(ts, t, NewTask(boardId, r.id)), nb, nt + 1,
                          [call EXCEPT !.resp = 201, !.board = boardId,
                                       !.task = t, !.col = col,
                                       !.writes = <<"saveTask", "pushBoard">>])

(***************************************************************************)
(* server.js: the handlers on the raw collections.                         *)
(***************************************************************************)
\* app.post('/api/simple-create-task'); col = <<>> models columnId omitted
simpleCreateTask(bs, ts, nb, nt, hasTitle, rawBoard, col) ==
  LET call == Call("CreateTask", "server")
      rawBoardId == stripNonHex(rawBoard)
      boardId == oidOfHex(rawBoardId)
      columnId == IF Len(col) = 0 THEN S_todo ELSE col
      t == TaskIdOf(nt + 1)
  IN IF ~hasTitle \/ Len(rawBoard) = 0 \/ Len(rawBoardId) # IdLen
     THEN Outcome(bs, ts, nb, nt, [call EXCEPT !.resp = 400])
     ELSE IF boardId \notin DOMAIN bs
     THEN Outcome(bs, ts, nb, nt, [call EXCEPT !.resp = 404])
     ELSE LET m == matchColumn(bs[boardId].columns, columnId)
              withColumns == IF m.found THEN bs
                             ELSE updateColumns(bs, boardId, SimpleDefaultColumns)
              matchedColumn == IF m.found THEN m.id ELSE S_todo
          IN Outcome(updateColumns(withColumns, boardId,
                       pushToFirstColumn(withColumns[boardId].columns,
                                         matchedColumn, t)),
                     Put(ts, t, NewTask(boardId, matchedColumn)), nb, nt + 1,
                     [call EXCEPT !.resp = 201, !.board = boardId, !.task = t,
                                  !.col = columnId,
                                  !.writes = IF m.found
                                             THEN <<"insertTask", "pushBoard">>
                                             ELSE <<"setColumns", "insertTask",
                                                    "pushBoard">>])

\* app.delete('/api/task/:taskId'): the task first, the column list after
apiDeleteTask(bs, ts, nb, nt, rawTask) ==
  LET call == Call("DeleteTask", "server")
      rawTaskId == stripNonHex(rawTask)
      taskId == oidOfHex(rawTaskId)
  IN IF Len(rawTaskId) # IdLen
     THEN Outcome(bs, ts, nb, nt, [call EXCEPT !.resp = 400])
     ELSE IF taskId \notin DOMAIN ts
     THEN Outcome(bs, ts, nb, nt, [call EXCEPT !.resp = 404])
     ELSE Outcome(boardPull(bs, ts[taskId].boardId, ts[taskId].columnId, taskId),
                  Del(ts, taskId), nb, nt,
                  [call EXCEPT !.resp = 200, !.board = ts[taskId].boardId,
                               !.task = taskId,
                               !.writes = <<"deleteTask", "pullBoard">>])

\* app.delete('/api/board/:boardId'): tasksDeleted is deleteMany's count
apiDeleteBoard(bs, ts, nb, nt, rawBoard) ==
  LET call == Call("DeleteBoard", "server")
      rawBoardId == stripNonHex(rawBoard)
      boardId == oidOfHex(rawBoardId)
  IN IF Len(rawBoardId) # IdLen
     THEN Outcome(bs, ts, nb, nt, [call EXCEPT !.resp = 400])
     ELSE IF boardId \notin DOMAIN bs
     THEN Outcome(bs, ts, nb, nt, [call EXCEPT !.resp = 404])
     ELSE Outcome(Del(bs, boardId), deleteTasksOfBoard(ts, boardId), nb, nt,
                  [call EXCEPT !.resp = 200, !.board = boardId,
                               !.count = Cardinality(TasksOfBoard(ts, boardId)),
                               !.writes = <<"deleteTasks", "deleteBoard">>])

(***************************************************************************)
(* Requests.                                                               *)
(***************************************************************************)
S_nope == <<"n", "o", "p", "e">>

ColumnRequests == {S_column1, S_column3, S_nope}

InCol(id, title) == [id |-> id, title |-> title]

\* the columns of a create-board body: none, or one column without an id
\* followed by a column that already uses the id the first is given
ColumnsRequests ==
  { <<>>,
    <<InCol(<<>>, <<>>), InCol(S_column1, S_Done)>> }

\* an id the store never issued, for a request that must find nothing
GhostTaskId == [i \in 1..IdLen |-> "0"]

\* clients hold the ids the store has issued: they cannot guess the id of a
\* document that does not exist yet
IssuedBoardIds == {BoardIdOf(n) : n \in 1..nextBoard}

IssuedTaskIds == {TaskIdOf(n) : n \in 1..nextTask}

\* "'" + BOARDID + "'": an id as a broken serializer sends it
Quoted(id) == <<"'">> \o [i \in 1..Len(id) |-> ToUpperChar(id[i])] \o <<"'">>

TaskRequest(title, board, col) == [title |-> title, board |-> board, col |-> col]

\* task-creation bodies: every issued board with every column; the first
\* board's id in quotes; a malformed board id; a body without a title and
\* one without a columnId
TaskRequests ==
  {TaskRequest(TRUE, b, c) : b \in IssuedBoardIds, c \in ColumnRequests}
    \cup {TaskRequest(TRUE, Quoted(b), S_column1) :
            b \in IssuedBoardIds \cap {BoardIdOf(1)}}
    \cup {TaskRequest(FALSE, b, S_column1) :
            b \in IssuedBoardIds \cap {BoardIdOf(1)}}
    \cup {TaskRequest(TRUE, b, <<>>) :
            b \in IssuedBoardIds \cap {BoardIdOf(1)}}
    \cup {TaskRequest(TRUE, S_nope, S_column1)}

BoardRequests ==
  {[title |-> TRUE, columns |-> cols] : cols \in ColumnsRequests}
    \cup {[title |-> FALSE, columns |-> <<>>]}

CreateBoard ==
  /\ nextBoard < MaxBoards
  /\ \E r \in BoardRequests :
    Apply(createBoard(boards, tasks, nextBoard, nextTask, r.title, r.columns))

DeleteBoard ==
  \E b \in IssuedBoardIds :
    Apply(deleteBoard(boards, tasks, nextBoard, nextTask, b))

ApiDeleteBoard ==
  \E b \in IssuedBoardIds \cup {Quoted(b) : b \in IssuedBoardIds \cap {BoardIdOf(1)}}
             \cup {S_nope} :
    Apply(apiDeleteBoard(boards, tasks, nextBoard, nextTask, b))

CreateTask ==
  /\ nextTask < MaxTasks
  /\ \E r \in TaskRequests :
    Apply(createTask(boards, tasks, nextBoard, nextTask, r.title, r.board, r.col))

CreateTaskMatching ==
  /\ nextTask < MaxTasks
  /\ \E r \in TaskRequests, pick \in (DOMAIN boards) \cup {NoId} :
    /\ (pick = NoId) = (DOMAIN boards = {})
    /\ Apply(createTaskMatching(boards, tasks, nextBoard, nextTask,
                                r.title, r.board, r.col, pick))

SimpleCreateTask ==
  /\ nextTask < MaxTasks
  /\ \E r \in TaskRequests :
    Apply(simpleCreateTask(boards, tasks, nextBoard, nextTask,
                           r.title, r.board, r.col))

UpdateTask ==
  \E t \in IssuedTaskIds, col \in ColumnRequests :
    Apply(updateTask(boards, tasks, nextBoard, nextTask, t, <<>>, col))

MoveTask ==
  \E t \in IssuedTaskIds \cup {GhostTaskId}, col \in ColumnRequests \cup {<<>>} :
    Apply(moveTask(boards, tasks, nextBoard, nextTask, t, col))

DeleteTask ==
  \E t \in IssuedTaskIds :
    Apply(deleteTask(boards, tasks, nextBoard, nextTask, t))

ApiDeleteTask ==
  \E t \in IssuedTaskIds :
    Apply(apiDeleteTask(boards, tasks, nextBoard, nextTask, t))

Init ==
  /\ boards = EmptyCollection
  /\ tasks = EmptyCollection
  /\ nextBoard = 0
  /\ nextTask = 0
  /\ inflight = <<>>
  /\ now = 0
  /\ updatedAt = <<>>
  /\ last = Call("init", "none")

\* the application as mounted: server.js with routes/boardRoutes.js and
\* routes/taskRoutes.js
Next ==
  \/ CreateBoard
  \/ DeleteBoard
  \/ ApiDeleteBoard
  \/ CreateTask
  \/ SimpleCreateTask
  \/ UpdateTask
  \/ MoveTask
  \/ DeleteTask
  \/ ApiDeleteTask

Spec == Init /\ [][Next]_vars

\* the application with the task routes of the column-matching revision
NextMatching ==
  \/ CreateBoard
  \/ DeleteBoard
  \/ CreateTaskMatching
  \/ UpdateTask
  \/ MoveTask
  \/ DeleteTask

SpecMatching == Init /\ [][NextMatching]_vars

(***************************************************************************)
(* The task routes alone on boards with the default columns.               *)
(***************************************************************************)
CreateDefaultBoard ==
  /\ nextBoard < MaxBoards
  /\ Apply(createBoard(boards, tasks, nextBoard, nextTask, TRUE, <<>>))

NextTaskOps ==
  \/ CreateDefaultBoard
  \/ CreateTask
  \/ MoveTask
  \/ DeleteTask

SpecTaskOps == Init /\ [][NextTaskOps]_vars

(***************************************************************************)
(* The id helpers of utils.js applied to padded ids.                       *)
(***************************************************************************)
\* characters outside [0-9a-fA-F]
PadChars == {"'", " ", "x", "-"}

Pads == UNION {[1..n -> PadChars] : n \in 0..MaxPad}

\* 24-character lowercase hex strings: one letter, digits and letters, an
\* id of the store
HexIds ==
  { [i \in 1..IdLen |-> "a"],
    [i \in 1..IdLen |-> IF i % 2 = 0 THEN DigitChars[(i % 10) + 1]
                        ELSE LowerChars[(i % 6) + 1]],
    TaskIdOf(1) }

InitNormalize ==
  /\ boards = EmptyCollection
  /\ tasks = EmptyCollection
  /\ nextBoard = 0
  /\ nextTask = 0
  /\ inflight = <<>>
  /\ now = 0
  /\ updatedAt = <<>>
  /\ \E p \in Pads, s \in HexIds, q \in Pads :
       last = [op |-> "input", p |-> p, s |-> s, q |-> q, out |-> <<>>]

CleanObjectIdString ==
  /\ last.op = "input"
  /\ last' = [last EXCEPT !.op = "cleanObjectIdString",
                          !.out = cleanObjectIdString(last.p \o last.s \o last.q)]
  /\ UNCHANGED <<boards, tasks, nextBoard, nextTask, inflight, now, updatedAt>>

ToObjectId ==
  /\ last.op = "input"
  /\ last' = [last EXCEPT !.op = "toObjectId",
                          !.out = toObjectId(last.p \o last.s \o last.q)]
  /\ UNCHANGED <<boards, tasks, nextBoard, nextTask, inflight, now, updatedAt>>

NextNormalize ==
  \/ CleanObjectIdString
  \/ ToObjectId

SpecNormalize == InitNormalize /\ [][NextNormalize]_vars

(***************************************************************************)
(* The column matching applied to column lists and requested ids.          *)
(***************************************************************************)
S_TODO == <<"T", "O", "D", "O">>
S_backlog == <<"b", "a", "c", "k", "l", "o", "g">>
S_colbacklog == <<"c", "o", "l", "-", "b", "a", "c", "k", "l", "o", "g">>

ColumnLists ==
  { <<>>,
    DefaultColumns,
    SimpleDefaultColumns,
    repairColumns(<<InCol(<<>>, <<>>), InCol(S_column1, S_Done)>>),
    <<Col(S_colbacklog, S_backlog), Col(S_completed, S_Done)>>,
    <<Col(S_TODO, S_InProgress)>> }

ResolverRequests ==
  {S_column1, S_column2, S_column3, S_todo, S_to_do, S_TODO, S_inprogress,
   S_inprogress2, S_done, S_Done, S_completed, S_finished, S_backlog, S_nope}

InitResolve ==
  /\ boards = EmptyCollection
  /\ tasks = EmptyCollection
  /\ nextBoard = 0
  /\ nextTask = 0
  /\ inflight = <<>>
  /\ now = 0
  /\ updatedAt = <<>>
  /\ \E cols \in ColumnLists, requested \in ResolverRequests :
       last = [op |-> "input", cols |-> cols, requested |-> requested,
               out |-> NoColumn]

ResolveColumn ==
  /\ last.op = "input"
  /\ last' = [last EXCEPT !.op = "resolveColumn",
                          !.out = resolveColumn(last.cols, last.requested)]
  /\ UNCHANGED <<boards, tasks, nextBoard, nextTask, inflight, now, updatedAt>>

MatchColumn ==
  /\ last.op = "input"
  /\ last' = [last EXCEPT !.op = "matchColumn",
                          !.out = matchColumn(last.cols, last.requested)]
  /\ UNCHANGED <<boards, tasks, nextBoard, nextTask, inflight, now, updatedAt>>

NextResolve ==
  \/ ResolveColumn
  \/ MatchColumn

SpecResolve == InitResolve /\ [][NextResolve]_vars

(***************************************************************************)
(* Properties.                                                             *)
(***************************************************************************)
ColumnIds(b) == {boards[b].columns[i].id : i \in 1..Len(boards[b].columns)}

\* how many times task t is listed in the columns of cols whose index is in S
Listed(cols, S, t) ==
  Cardinality(UNION {{<<i, k>> : k \in {k \in 1..Len(cols[i].taskIds) :
                                          cols[i].taskIds[k] = t}} : i \in S})

Indexes(cols) == 1..Len(cols)

WithId(cols, id) == {i \in Indexes(cols) : cols[i].id = id}

\* C1: after any sequence of CreateTask, MoveTask and DeleteTask calls with
\* any column ids, every id in a column's taskIds names an existing task
\* with that column's id and that board's id, and every task of a board is
\* listed exactly once in the board, in the column its columnId names.
RefInvariant ==
  /\ \A b \in DOMAIN boards : \A i \in Indexes(boards[b].columns) :
       \A k \in 1..Len(boards[b].columns[i].taskIds) :
         LET t == boards[b].columns[i].taskIds[k]
         IN /\ t \in DOMAIN tasks
            /\ tasks[t].columnId = boards[b].columns[i].id
            /\ tasks[t].boardId = b
  /\ \A t \in DOMAIN tasks :
       tasks[t].boardId \in DOMAIN boards =>
         LET cols == boards[tasks[t].boardId].columns
         IN /\ Listed(cols, Indexes(cols), t) = 1
            /\ Listed(cols, WithId(cols, tasks[t].columnId), t) = 1

\* C2: a CreateTask that succeeds on an existing board with at least one
\* column, whatever non-empty columnId was requested, persists the task
\* with the id of a column of that board and lists the task in that column.
CreateTaskResolves ==
  ( /\ last.op = "CreateTask"
    /\ last.resp = 201
    /\ Len(last.col) > 0
    /\ last.board \in DOMAIN boards
    /\ Len(boards[last.board].columns) > 0 )
  => LET cols == boards[last.board].columns
         t == last.task
     IN /\ tasks[t].columnId \in ColumnIds(last.board)
        /\ Listed(cols, WithId(cols, tasks[t].columnId), t) >= 1

\* C3: MoveTask(t, c) of an existing task whose column differs from c, c
\* being a column of its board, ends with t.columnId = c, t absent from the
\* old column and listed exactly once in c and in no other column.
MoveTaskPostcondition ==
  [][ ( /\ last'.op = "MoveTask"
        /\ last'.resp = 200
        /\ last'.task \in DOMAIN tasks
        /\ tasks[last'.task].columnId # last'.col
        /\ tasks[last'.task].boardId \in DOMAIN boards
        /\ last'.col \in ColumnIds(tasks[last'.task].boardId) )
      => LET t == last'.task
             c == last'.col
             cols == boards'[tasks[t].boardId].columns
         IN /\ tasks'[t].columnId = c
            /\ Listed(cols, WithId(cols, tasks[t].columnId), t) = 0
            /\ Listed(cols, WithId(cols, c), t) = 1
            /\ Listed(cols, Indexes(cols), t) = 1 ]_vars

\* C4: a MoveTask(t, c) that follows a MoveTask(t, c) changes no task and no
\* board and issues no write.
MoveTaskIdempotent ==
  [][ (last'.op = "MoveTask" /\ last'.repeat # "no")
      => /\ boards' = boards
         /\ tasks' = tasks
         /\ last'.writes = <<>> ]_vars

\* C4 happens: a MoveTask answered without a write right after the MoveTask
\* that moved the task into the column where it is now listed
MoveTaskIdempotentWitness ==
  /\ last.op = "MoveTask"
  /\ last.repeat = "afterMove"
  /\ last.writes = <<>>
  /\ tasks[last.task].columnId = last.col
  /\ last.board \in DOMAIN boards
  /\ Listed(boards[last.board].columns,
            WithId(boards[last.board].columns, last.col), last.task) = 1

\* C5: DeleteTask(t) of an existing task deletes the task and leaves t in no
\* column of its board; every other task and every other taskIds entry is
\* unchanged.
DeleteTaskPostcondition ==
  [][ (last'.op = "DeleteTask" /\ last'.resp = 200)
      => LET t == last'.task
         IN /\ t \in DOMAIN tasks
            /\ tasks' = Del(tasks, t)
            /\ DOMAIN boards' = DOMAIN boards
            /\ \A b \in DOMAIN boards :
                 /\ Len(boards'[b].columns) = Len(boards[b].columns)
                 /\ \A i \in Indexes(boards[b].columns) :
                      /\ boards'[b].columns[i].id = boards[b].columns[i].id
                      /\ boards'[b].columns[i].taskIds
                           = IF b = tasks[t].boardId
                             THEN Without(boards[b].columns[i].taskIds, t)
                             ELSE boards[b].columns[i].taskIds ]_vars

\* a step of DeleteBoard(b) on an existing board deletes the board and its
\* tasks and no other document; the handlers in reportsCount report the
\* number of tasks b had
DeleteBoardCascade(reportsCount) ==
  (last'.op = "DeleteBoard" /\ last'.resp = 200)
  => LET b == last'.board
     IN /\ b \in DOMAIN boards
        /\ boards' = Del(boards, b)
        /\ TasksOfBoard(tasks', b) = {}
        /\ \A t \in DOMAIN tasks :
             tasks[t].boardId # b => (t \in DOMAIN tasks' /\ tasks'[t] = tasks[t])
        /\ DOMAIN tasks' \subseteq DOMAIN tasks
        /\ last'.impl \in reportsCount
             => last'.count = Cardinality(TasksOfBoard(tasks, b))

CreateTaskFrame ==
  [][ ( /\ last'.op = "CreateTask"
        /\ last'.resp = 201
        /\ last'.board \in DOMAIN boards
        /\ last'.col \in ColumnIds(last'.board) )
      => \E c \in WithId(boards[last'.board].columns, last'.col) :
           /\ DOMAIN boards' = DOMAIN boards
           /\ \A b \in DOMAIN boards :
                /\ Len(boards'[b].columns) = Len(boards[b].columns)
                /\ \A i \in Indexes(boards[b].columns) :
                     boards'[b].columns[i].taskIds
                       = IF b = last'.board /\ i = c
                         THEN Append(boards[b].columns[i].taskIds, last'.task)
                         ELSE boards[b].columns[i].taskIds ]_vars

ResolverTotal ==
  last.op \in {"resolveColumn", "matchColumn"}
  => /\ Len(last.cols) > 0
          => /\ last.out.found
             /\ \E i \in Indexes(last.cols) : last.cols[i].id = last.out.id
     /\ ~last.out.found => Len(last.cols) = 0

\* C10 happens: a request that matches no column by id, title or format got
\* the first column of a board that has columns
ResolverWitness ==
  /\ last.op = "resolveColumn"
  /\ last.requested = S_nope
  /\ Len(last.cols) > 1
  /\ last.out.found
  /\ last.out.id = last.cols[1].id

(***************************************************************************)
(* The column matching of the task routes on lists where several steps of  *)
(* the chain match different columns.                                      *)
(***************************************************************************)
S_columntodo == <<"c", "o", "l", "u", "m", "n", "-", "t", "o", "d", "o">>
S_coldone == <<"c", "o", "l", "-", "d", "o", "n", "e">>

\* for "todo": the title of the first, the format of the second and the
\* lowercased id of the third column match; for "done": the format of the
\* fourth matches after the title of the third
OrderColumns ==
  <<Col(S_column1, S_todo), Col(S_columntodo, S_Done),
    Col(S_TODO, S_done), Col(S_coldone, S_InProgress)>>

\* for "backlog" only the format col-backlog matches, on the second column
FormatColumns ==
  <<Col(S_column1, S_ToDo), Col(S_colbacklog, S_InProgress)>>

InitResolveOrder ==
  /\ boards = EmptyCollection
  /\ tasks = EmptyCollection
  /\ nextBoard = 0
  /\ nextTask = 0
  /\ inflight = <<>>
  /\ now = 0
  /\ updatedAt = <<>>
  /\ \E cols \in ColumnLists \cup {OrderColumns, FormatColumns},
        requested \in ResolverRequests :
       last = [op |-> "input", cols |-> cols, requested |-> requested,
               out |-> NoColumn]

NextResolveOrder == ResolveColumn

SpecResolveOrder == InitResolveOrder /\ [][NextResolveOrder]_vars

\* the columns each step of the chain accepts, in the order of the steps
ChainSteps(cols, r) ==
  << {i \in Indexes(cols) : cols[i].id = r},
     {i \in Indexes(cols) : toLowerCase(cols[i].id) = toLowerCase(r)},
     {i \in Indexes(cols) : toLowerCase(cols[i].title) = toLowerCase(r)},
     IF IsSimpleWord(r)
     THEN {i \in Indexes(cols) :
             \E f \in {S_columnDash \o r, S_colDash \o r, r} :
               cols[i].id = f \/ toLowerCase(cols[i].id) = f}
     ELSE {},
     {i \in Indexes(cols) : i = 1} >>

\* the first step that accepts a column, 0 when none does
DecidingStep(cols, r) ==
  FirstIndex({k \in 1..5 : ChainSteps(cols, r)[k] # {}})

\* C11: the matching applies exact id, case-insensitive id, case-insensitive
\* title, the formats column-<token>, col-<token>, token for a lowercase
\* alphabetic request, then the first column; the first step that matches
\* decides, with the first column it accepts, and a request that matches
\* nothing gets the first column's id.
ResolverOrder ==
  last.op = "resolveColumn"
  => LET k == DecidingStep(last.cols, last.requested)
     IN IF k = 0 THEN ~last.out.found
        ELSE /\ last.out.found
             /\ last.out.id
                  = last.cols[FirstIndex(ChainSteps(last.cols, last.requested)[k])].id

\* C11 happens: "todo" matches the title of the first column, the format of
\* the second and the lowercased id of the third, and the third is returned
ResolverOrderWitness ==
  /\ last.op = "resolveColumn"
  /\ last.cols = OrderColumns
  /\ last.requested = S_todo
  /\ DecidingStep(last.cols, last.requested) = 2
  /\ ChainSteps(last.cols, last.requested)[3] = {1}
  /\ ChainSteps(last.cols, last.requested)[4] = {2, 3}
  /\ last.out.id = S_TODO

\* a CreateTask step whose boardId is well-formed and names no board: the
\* missing-board branch of the matching task routes, a 201 of the mounted
\* task routes for a board that does not exist, the 404 of server.js
CreateTaskOnMissingBoard ==
  /\ last'.op = "CreateTask"
  /\ \/ last'.impl = "taskRoutesMatching" /\ last'.writes = <<"saveBoard">>
     \/ last'.impl = "taskRoutes" /\ last'.resp = 201
          /\ last'.board \notin DOMAIN boards
     \/ last'.impl = "server" /\ last'.resp = 404

\* C12: CreateTask whose boardId is well-formed but names no existing board
\* does not fail: it creates a placeholder board with the default columns,
\* persists the task with the placeholder's id as boardId and appends the
\* task id to one of the placeholder's columns.
CreateTaskPlaceholder ==
  [][ CreateTaskOnMissingBoard
      => /\ last'.resp = 201
         /\ \E b \in (DOMAIN boards') \ (DOMAIN boards) :
              /\ [i \in Indexes(boards'[b].columns) |-> boards'[b].columns[i].id]
                   = [i \in Indexes(DefaultColumns) |-> DefaultColumns[i].id]
              /\ last'.task \in DOMAIN tasks'
              /\ tasks'[last'.task].boardId = b
              /\ Listed(boards'[b].columns, Indexes(boards'[b].columns),
                        last'.task) = 1 ]_vars

\* a CreateTask step whose boardId, stripped of its non-hex characters, is
\* not 24 characters long
CreateTaskWithMalformedBoard ==
  /\ last'.op = "CreateTask"
  /\ Len(last'.sent) > 0
  /\ Len(stripNonHex(last'.sent)) # IdLen

\* C13: CreateTask whose boardId cannot be normalized to a 24-hex identifier
\* is rejected with an invalid-board-id error: no task is created, no board
\* is created or modified, and no other board's id takes the place of the
\* malformed one.
CreateTaskRejectsMalformedBoard ==
  [][ CreateTaskWithMalformedBoard
      => /\ last'.resp = 400
         /\ last'.board = NoId
         /\ tasks' = tasks
         /\ boards' = boards ]_vars

\* C14: a MoveTask that fails, with 404 because the task does not exist or
\* with 400 because the columnId is missing, changes no task and no board.
MoveTaskFailureFrame ==
  [][ (last'.op = "MoveTask" /\ last'.resp \in {400, 404})
      => (tasks' = tasks /\ boards' = boards) ]_vars

\* C14 happens: a MoveTask without columnId was refused while a task is
\* listed in a column of its board
MoveTaskFailureWitness ==
  /\ last.op = "MoveTask"
  /\ last.resp = 400
  /\ last.writes = <<>>
  /\ \E t \in DOMAIN tasks :
       /\ tasks[t].boardId \in DOMAIN boards
       /\ Listed(boards[tasks[t].boardId].columns,
                 Indexes(boards[tasks[t].boardId].columns), t) = 1

(***************************************************************************)
(* Handlers as the sequence of their store calls.  Each await of a handler *)
(* is one atomic step; between two steps of a call the steps of other      *)
(* calls may run.  A call in flight keeps what the handler holds in its    *)
(* local variables: the task document it loaded, oldColumnId, the answer.  *)
(***************************************************************************)
Callers == {1, 2}

Idle == [op |-> "none", impl |-> "none", pc |-> "idle", task |-> NoId,
         board |-> NoId, col |-> <<>>, oldColumnId |-> <<>>, resp |-> 0,
         done |-> <<>>]

Request(op, impl, t, b, col) ==
  [Idle EXCEPT !.op = op, !.impl = impl, !.pc = "find", !.task = t,
               !.board = b, !.col = col]

World(bs, ts, nt, c) == [boards |-> bs, tasks |-> ts, nextTask |-> nt, call |-> c]

Finish(c, resp) == [c EXCEPT !.pc = "done", !.resp = resp]

\* router.patch('/tasks/:id/move') with the pull, the push and the save
\* done inside the step that loads the task
moveTaskStepAtomic(bs, ts, nt, c) ==
  LET o == moveTask(bs, ts, 0, nt, c.task, c.col)
  IN World(o.boards, o.tasks, nt, Finish(c, o.last.resp))

\* router.patch('/tasks/:id/move') with the task saved first and the pull
\* done last
moveTaskStepSaveFirst(bs, ts, nt, c) ==
  LET t == c.task
  IN CASE c.pc = "find" ->
            IF Len(c.col) = 0 THEN World(bs, ts, nt, Finish(c, 400))
            ELSE IF t \notin DOMAIN ts THEN World(bs, ts, nt, Finish(c, 404))
            ELSE IF ts[t].columnId = c.col THEN World(bs, ts, nt, Finish(c, 200))
            ELSE World(bs, ts, nt,
                       [c EXCEPT !.pc = "save", !.board = ts[t].boardId,
                                 !.oldColumnId = ts[t].columnId])
       [] c.pc = "save" ->
            World(bs, IF t \in DOMAIN ts THEN [ts EXCEPT ![t].columnId = c.col]
                      ELSE ts,
                  nt, [c EXCEPT !.pc = "push", !.done = Append(@, "saveTask")])
       [] c.pc = "push" ->
            World(boardPush(bs, c.board, c.col, t), ts, nt,
                  [c EXCEPT !.pc = "pull", !.done = Append(@, "pushBoard")])
       [] c.pc = "pull" ->
            World(boardPull(bs, c.board, c.oldColumnId, t), ts, nt,
                  [Finish(c, 200) EXCEPT !.done = Append(@, "pullBoard")])
       [] OTHER -> World(bs, ts, nt, c)

\* router.patch('/tasks/:id/move'), one await per step: Task.findById with
\* the checks around it, the $pull, the $push, task.save()
moveTaskStep(bs, ts, nt, c) ==
  LET t == c.task
  IN CASE c.pc = "find" ->
            IF Len(c.col) = 0 THEN World(bs, ts, nt, Finish(c, 400))
            ELSE IF t \notin DOMAIN ts THEN World(bs, ts, nt, Finish(c, 404))
            ELSE IF ts[t].columnId = c.col THEN World(bs, ts, nt, Finish(c, 200))
            ELSE World(bs, ts, nt,
                       [c EXCEPT !.pc = "pull", !.board = ts[t].boardId,
                                 !.oldColumnId = ts[t].columnId])
       [] c.pc = "pull" ->
            World(boardPull(bs, c.board, c.oldColumnId, t), ts, nt,
                  [c EXCEPT !.pc = "push", !.done = Append(@, "pullBoard")])
       [] c.pc = "push" ->
            World(boardPush(bs, c.board, c.col, t), ts, nt,
                  [c EXCEPT !.pc = "save", !.done = Append(@, "pushBoard")])
       [] c.pc = "save" ->
            \* the save of a document deleted meanwhile writes nothing
            IF t \in DOMAIN ts
            THEN World(bs, [ts EXCEPT ![t].columnId = c.col], nt,
                       [Finish(c, 200) EXCEPT !.done = Append(@, "saveTask")])
            ELSE World(bs, ts, nt, Finish(c, 500))
       [] OTHER -> World(bs, ts, nt, c)

\* a step of call p changes the stores and the call
Advance(p, w) ==
  /\ boards' = w.boards
  /\ tasks' = w.tasks
  /\ nextTask' = w.nextTask
  /\ inflight' = [inflight EXCEPT ![p] = w.call]
  /\ UNCHANGED <<nextBoard, last, now, updatedAt>>

Start(p, request) ==
  /\ inflight[p].pc = "idle"
  /\ inflight' = [inflight EXCEPT ![p] = request]
  /\ UNCHANGED <<boards, tasks, nextBoard, nextTask, last, now, updatedAt>>

Running(p) == inflight[p].pc \notin {"idle", "done", "stopped"}

AllDone == \A p \in Callers : inflight[p].pc = "done"

(***************************************************************************)
(* Two MoveTask calls on one task, started from the state a CreateBoard    *)
(* and a CreateTask leave.                                                 *)
(***************************************************************************)
DefaultColumnIds == {DefaultColumns[i].id : i \in 1..Len(DefaultColumns)}

\* the outcome of POST /boards without columns followed by POST /tasks into
\* column col of the new board
BoardWithTask(col) ==
  LET b == createBoard(EmptyCollection, EmptyCollection, 0, 0, TRUE, <<>>)
  IN createTask(b.boards, b.tasks, b.nextBoard, b.nextTask, TRUE,
                BoardIdOf(1), col)

InitMoveRace ==
  /\ \E col \in DefaultColumnIds :
       /\ boards = BoardWithTask(col).boards
       /\ tasks = BoardWithTask(col).tasks
  /\ nextBoard = 1
  /\ nextTask = 1
  /\ last = Call("init", "none")
  /\ inflight = [p \in Callers |-> Idle]
  /\ now = 0
  /\ updatedAt = <<>>

StartMoveTask(p) ==
  \E col \in DefaultColumnIds :
    Start(p, Request("MoveTask", "taskRoutes", TaskIdOf(1), NoId, col))

StepMoveTask(p) ==
  /\ Running(p)
  /\ inflight[p].op = "MoveTask"
  /\ Advance(p, moveTaskStep(boards, tasks, nextTask, inflight[p]))

NextMoveRace ==
  \E p \in Callers :
    \/ StartMoveTask(p)
    \/ StepMoveTask(p)

SpecMoveRace == InitMoveRace /\ [][NextMoveRace]_vars

\* the columns of its board that list task t
ColumnsListing(bs, ts, t) ==
  {i \in Indexes(bs[ts[t].boardId].columns) :
     \E k \in 1..Len(bs[ts[t].boardId].columns[i].taskIds) :
       bs[ts[t].boardId].columns[i].taskIds[k] = t}

\* the schedules of two calls of at most four steps each
Schedules == [1..8 -> Callers]

RECURSIVE runMoves(_, _, _, _, _)
\* the stores after the calls c1 and c2 took their steps in the order of
\* the schedule, from step k on
runMoves(bs, ts, calls, schedule, k) ==
  IF k > Len(schedule) THEN [boards |-> bs, tasks |-> ts, calls |-> calls]
  ELSE LET p == schedule[k]
           w == moveTaskStep(bs, ts, 1, calls[p])
       IN runMoves(w.boards, w.tasks, [calls EXCEPT ![p] = w.call], schedule, k + 1)

\* the end states of two moves of task t, started on the stores bs and ts,
\* to columns of the default board, with both calls completed
MoveRaceEnds(bs, ts, t) ==
  {e \in {runMoves(bs, ts,
                   <<Request("MoveTask", "taskRoutes", t, NoId, c1),
                     Request("MoveTask", "taskRoutes", t, NoId, c2)>>,
                   schedule, 1) :
            c1 \in DefaultColumnIds, c2 \in DefaultColumnIds,
            schedule \in Schedules} :
     \A p \in Callers : e.calls[p].pc = "done"}

NoneStarted == \A p \in Callers : inflight[p].pc = "idle"

\* C15: with two MoveTask calls on the same task running concurrently, each
\* store call atomic, there is an interleaving after which the task id is
\* in the taskIds of two different columns of its board.
MoveRaceCanDuplicate ==
  NoneStarted =>
    \E e \in MoveRaceEnds(boards, tasks, TaskIdOf(1)) :
      Cardinality(ColumnsListing(e.boards, e.tasks, TaskIdOf(1))) = 2

\* C15 happens: both calls have completed and the task is listed in two
\* columns
MoveRaceDuplicateWitness ==
  /\ AllDone
  /\ \A p \in Callers : inflight[p].op = "MoveTask" /\ inflight[p].resp = 200
  /\ Cardinality(ColumnsListing(boards, tasks, TaskIdOf(1))) = 2

\* C16 as stated: there is an interleaving of two concurrent MoveTask calls
\* on the same task, both to columns of the board, after which the task
\* exists and its id is in no column of its board.
MoveRaceCanUnlist ==
  NoneStarted =>
    \E e \in MoveRaceEnds(boards, tasks, TaskIdOf(1)) :
      /\ TaskIdOf(1) \in DOMAIN e.tasks
      /\ ColumnsListing(e.boards, e.tasks, TaskIdOf(1)) = {}

\* C16: under every interleaving of two concurrent MoveTask calls on the
\* same task, both to columns of the board, once both have completed the
\* task id is in at least one column: in one column once, in one column
\* twice, or in two columns.
MoveRaceEndsListed ==
  AllDone =>
    LET cols == boards[tasks[TaskIdOf(1)].boardId].columns
        n == Listed(cols, Indexes(cols), TaskIdOf(1))
    IN /\ ColumnsListing(boards, tasks, TaskIdOf(1)) # {}
       /\ n \in {1, 2}

\* C16 happens: two overlapping moves to the same column have completed and
\* the task is listed twice in it
MoveRaceListedWitness ==
  /\ AllDone
  /\ \A p \in Callers : Len(inflight[p].done) = 3
  /\ inflight[1].col = inflight[2].col
  /\ Cardinality(ColumnsListing(boards, tasks, TaskIdOf(1))) = 1
  /\ Listed(boards[tasks[TaskIdOf(1)].boardId].columns,
            Indexes(boards[tasks[TaskIdOf(1)].boardId].columns), TaskIdOf(1)) = 2

(***************************************************************************)
(* Two CreateTask calls on one board.                                      *)
(***************************************************************************)
\* router.put('/boards/:id') with columns among the updated fields: the
\* columns are replaced by the ones sent, an empty list included
updateBoard(bs, ts, nb, nt, b, cols) ==
  LET call == Call("UpdateBoard", "boardRoutes")
  IN IF b \notin DOMAIN bs
     THEN Outcome(bs, ts, nb, nt, [call EXCEPT !.resp = 404])
     ELSE IF \E i \in 1..Len(cols) : Len(cols[i].id) = 0 \/ Len(cols[i].title) = 0
     THEN Outcome(bs, ts, nb, nt, [call EXCEPT !.resp = 500])
     ELSE Outcome(updateColumns(bs, b, [i \in 1..Len(cols) |->
                                          Col(cols[i].id, cols[i].title)]),
                  ts, nb, nt,
                  [call EXCEPT !.resp = 200, !.board = b, !.given = Len(cols),
                               !.writes = <<"updateBoard">>])

\* router.post('/tasks'), one await per step: task.save(), the $push
createTaskStep(bs, ts, nt, c) ==
  CASE c.pc = "find" ->
         LET b == safeObjectId(c.board)
             t == TaskIdOf(nt + 1)
         IN IF b = NoId \/ Len(c.col) = 0
            THEN World(bs, ts, nt, Finish(c, 500))
            ELSE World(bs, Put(ts, t, NewTask(b, c.col)), nt + 1,
                       [c EXCEPT !.pc = "push", !.task = t, !.board = b,
                                 !.done = Append(@, "saveTask")])
    [] c.pc = "push" ->
         World(boardPush(bs, c.board, c.col, c.task), ts, nt,
               [Finish(c, 201) EXCEPT !.done = Append(@, "pushBoard")])
    [] OTHER -> World(bs, ts, nt, c)

\* app.post('/api/simple-create-task'), one await per step: findOne of the
\* board with the column matching on the document read, the $set of the
\* default columns when the document had none, insertOne, the $push
simpleCreateTaskStep(bs, ts, nt, c) ==
  CASE c.pc = "find" ->
         LET rawBoardId == stripNonHex(c.board)
             boardId == oidOfHex(rawBoardId)
             columnId == IF Len(c.col) = 0 THEN S_todo ELSE c.col
         IN IF Len(c.board) = 0 \/ Len(rawBoardId) # IdLen
            THEN World(bs, ts, nt, Finish(c, 400))
            ELSE IF boardId \notin DOMAIN bs
            THEN World(bs, ts, nt, Finish(c, 404))
            ELSE LET m == matchColumn(bs[boardId].columns, columnId)
                 IN World(bs, ts, nt,
                          [c EXCEPT !.board = boardId,
                                    !.col = IF m.found THEN m.id ELSE S_todo,
                                    !.pc = IF m.found THEN "insert"
                                           ELSE "setColumns"])
    [] c.pc = "setColumns" ->
         World(updateColumns(bs, c.board, SimpleDefaultColumns), ts, nt,
               [c EXCEPT !.pc = "insert", !.done = Append(@, "setColumns")])
    [] c.pc = "insert" ->
         World(bs, Put(ts, TaskIdOf(nt + 1), NewTask(c.board, c.col)), nt + 1,
               [c EXCEPT !.pc = "push", !.task = TaskIdOf(nt + 1),
                         !.done = Append(@, "insertTask")])
    [] c.pc = "push" ->
         World(IF c.board \in DOMAIN bs
               THEN updateColumns(bs, c.board,
                      pushToFirstColumn(bs[c.board].columns, c.col, c.task))
               ELSE bs,
               ts, nt,
               [Finish(c, 201) EXCEPT !.done = Append(@, "pushBoard")])
    [] OTHER -> World(bs, ts, nt, c)

\* the outcome of POST /boards without columns followed by PUT /boards/:id
\* with columns: []
EmptiedBoard ==
  LET b == createBoard(EmptyCollection, EmptyCollection, 0, 0, TRUE, <<>>)
  IN updateBoard(b.boards, b.tasks, b.nextBoard, b.nextTask, BoardIdOf(1), <<>>)

DefaultBoard ==
  createBoard(EmptyCollection, EmptyCollection, 0, 0, TRUE, <<>>)

InitCreateRace ==
  /\ \E o \in {DefaultBoard, EmptiedBoard} :
       /\ boards = o.boards
       /\ tasks = o.tasks
  /\ nextBoard = 1
  /\ nextTask = 0
  /\ last = Call("init", "none")
  /\ inflight = [p \in Callers |-> Idle]
  /\ now = 0
  /\ updatedAt = <<>>

CreateColumnRequests == {S_column1, S_column3, S_todo}

StartCreateTask(p) ==
  \E col \in CreateColumnRequests :
    Start(p, Request("CreateTask", "taskRoutes", NoId, BoardIdOf(1), col))

StartSimpleCreateTask(p) ==
  \E col \in CreateColumnRequests :
    Start(p, Request("CreateTask", "server", NoId, BoardIdOf(1), col))

StepCreateTask(p) ==
  /\ Running(p)
  /\ inflight[p].op = "CreateTask"
  /\ inflight[p].impl = "taskRoutes"
  /\ Advance(p, createTaskStep(boards, tasks, nextTask, inflight[p]))

StepSimpleCreateTask(p) ==
  /\ Running(p)
  /\ inflight[p].op = "CreateTask"
  /\ inflight[p].impl = "server"
  /\ Advance(p, simpleCreateTaskStep(boards, tasks, nextTask, inflight[p]))

NextCreateRace ==
  \E p \in Callers :
    \/ StartCreateTask(p)
    \/ StartSimpleCreateTask(p)
    \/ StepCreateTask(p)
    \/ StepSimpleCreateTask(p)

SpecCreateRace == InitCreateRace /\ [][NextCreateRace]_vars

\* C17: for two CreateTask calls on the same board and the same column
\* running concurrently, under every interleaving of their store calls,
\* once both have completed the column's taskIds contains both new task
\* ids, each exactly once.  The two calls come through the same route, and
\* the column is the one both tasks record, present on the board at the end.
CreateRaceKeepsBoth ==
  ( /\ AllDone
    /\ inflight[1].impl = inflight[2].impl
    /\ \A p \in Callers :
         /\ inflight[p].op = "CreateTask"
         /\ inflight[p].resp = 201
         /\ tasks[inflight[p].task].columnId \in ColumnIds(inflight[p].board)
    /\ tasks[inflight[1].task].columnId = tasks[inflight[2].task].columnId )
  => \A p \in Callers :
       LET cols == boards[inflight[p].board].columns
           t == inflight[p].task
       IN /\ Listed(cols, WithId(cols, tasks[t].columnId), t) = 1
          /\ Listed(cols, Indexes(cols), t) = 1

(***************************************************************************)
(* A MoveTask run that stops between two awaits, and the same request      *)
(* issued again.                                                           *)
(***************************************************************************)
\* the process stops while call p is between two awaits: what the call has
\* written stays, what it has not written is never written
Stop(p) ==
  /\ Running(p)
  /\ inflight' = [inflight EXCEPT ![p].pc = "stopped"]
  /\ UNCHANGED <<boards, tasks, nextBoard, nextTask, last, now, updatedAt>>

FirstMoveTask == StartMoveTask(1)

InterruptMoveTask ==
  /\ inflight[1].op = "MoveTask"
  /\ Stop(1)

RetryMoveTask ==
  /\ inflight[1].pc = "stopped"
  /\ Start(2, Request("MoveTask", "taskRoutes", inflight[1].task, NoId,
                      inflight[1].col))

NextMoveRetry ==
  \/ FirstMoveTask
  \/ InterruptMoveTask
  \/ RetryMoveTask
  \/ \E p \in Callers : StepMoveTask(p)

SpecMoveRetry == InitMoveRace /\ [][NextMoveRetry]_vars

\* C18: MoveTask is safe to re-issue after an interruption: when a
\* MoveTask(t, c) run has stopped after any prefix of its three document
\* writes and MoveTask(t, c) has then run again to completion, t.columnId is
\* c and t's id is exactly once in c's taskIds and in no other column.
MoveTaskRetrySafe ==
  ( /\ inflight[1].pc = "stopped"
    /\ inflight[2].pc = "done"
    /\ inflight[2].resp = 200 )
  => LET t == inflight[2].task
         c == inflight[2].col
         cols == boards[tasks[t].boardId].columns
     IN /\ tasks[t].columnId = c
        /\ Listed(cols, WithId(cols, c), t) = 1
        /\ Listed(cols, Indexes(cols), t) = 1

(***************************************************************************)
(* DeleteTask, await by await.                                             *)
(***************************************************************************)
\* router.delete('/tasks/:id'), one await per step: findById, the $pull,
\* task.remove()
deleteTaskStep(bs, ts, nt, c) ==
  LET t == c.task
  IN CASE c.pc = "find" ->
            IF t \notin DOMAIN ts THEN World(bs, ts, nt, Finish(c, 404))
            ELSE World(bs, ts, nt,
                       [c EXCEPT !.pc = "pull", !.board = ts[t].boardId,
                                 !.oldColumnId = ts[t].columnId])
       [] c.pc = "pull" ->
            World(boardPull(bs, c.board, c.oldColumnId, t), ts, nt,
                  [c EXCEPT !.pc = "remove", !.done = Append(@, "pullBoard")])
       [] c.pc = "remove" ->
            World(bs, Del(ts, t), nt,
                  [Finish(c, 200) EXCEPT !.done = Append(@, "removeTask")])
       [] OTHER -> World(bs, ts, nt, c)

\* app.delete('/api/task/:taskId'), one await per step: findOne, deleteOne,
\* the $pull
apiDeleteTaskStep(bs, ts, nt, c) ==
  LET rawTaskId == stripNonHex(c.task)
      t == oidOfHex(rawTaskId)
  IN CASE c.pc = "find" ->
            IF Len(rawTaskId) # IdLen THEN World(bs, ts, nt, Finish(c, 400))
            ELSE IF t \notin DOMAIN ts THEN World(bs, ts, nt, Finish(c, 404))
            ELSE World(bs, ts, nt,
                       [c EXCEPT !.pc = "delete", !.task = t,
                                 !.board = ts[t].boardId,
                                 !.oldColumnId = ts[t].columnId])
       [] c.pc = "delete" ->
            \* deletedCount === 0 when another call has deleted the task
            IF c.task \notin DOMAIN ts THEN World(bs, ts, nt, Finish(c, 500))
            ELSE World(bs, Del(ts, c.task), nt,
                       [c EXCEPT !.pc = "pull", !.done = Append(@, "deleteTask")])
       [] c.pc = "pull" ->
            World(boardPull(bs, c.board, c.oldColumnId, c.task), ts, nt,
                  [Finish(c, 200) EXCEPT !.done = Append(@, "pullBoard")])
       [] OTHER -> World(bs, ts, nt, c)

StartDeleteTask(p) ==
  Start(p, Request("DeleteTask", "taskRoutes", TaskIdOf(1), NoId, <<>>))

StartApiDeleteTask(p) ==
  \E id \in {TaskIdOf(1), Quoted(TaskIdOf(1))} :
    Start(p, Request("DeleteTask", "server", id, NoId, <<>>))

StepDeleteTask(p) ==
  /\ Running(p)
  /\ inflight[p].op = "DeleteTask"
  /\ inflight[p].impl = "taskRoutes"
  /\ Advance(p, deleteTaskStep(boards, tasks, nextTask, inflight[p]))

StepApiDeleteTask(p) ==
  /\ Running(p)
  /\ inflight[p].op = "DeleteTask"
  /\ inflight[p].impl = "server"
  /\ Advance(p, apiDeleteTaskStep(boards, tasks, nextTask, inflight[p]))

InterruptDeleteTask(p) ==
  /\ inflight[p].op = "DeleteTask"
  /\ Stop(p)

NextDeleteSteps ==
  \E p \in Callers :
    \/ StartDeleteTask(p)
    \/ StartApiDeleteTask(p)
    \/ StepDeleteTask(p)
    \/ StepApiDeleteTask(p)
    \/ InterruptDeleteTask(p)

SpecDeleteSteps == InitMoveRace /\ [][NextDeleteSteps]_vars

\* the Task document of call p's task has been deleted by call p
DeletedBy(p) ==
  /\ inflight[p].op = "DeleteTask"
  /\ \E i \in 1..Len(inflight[p].done) :
       inflight[p].done[i] \in {"removeTask", "deleteTask"}

\* C19: DeleteTask removes the task id from its board's column taskIds
\* before it deletes the Task document, so in every reachable state,
\* including a stop between the two writes, no column's taskIds contains
\* the id of a Task that DeleteTask has already deleted.
DeleteTaskPullsFirst ==
  \A p \in Callers :
    DeletedBy(p) =>
      \A b \in DOMAIN boards :
        Listed(boards[b].columns, Indexes(boards[b].columns),
               inflight[p].task) = 0

(***************************************************************************)
(* DeleteBoard, await by await, stopped and issued again.                  *)
(***************************************************************************)
\* router.delete('/boards/:id') with a deleteMany that fails when it finds
\* no task to delete
deleteBoardStepStrict(bs, ts, nt, c) ==
  LET b == c.board
  IN CASE c.pc = "find" ->
            IF b \notin DOMAIN bs THEN World(bs, ts, nt, Finish(c, 404))
            ELSE World(bs, ts, nt, [c EXCEPT !.pc = "deleteTasks"])
       [] c.pc = "deleteTasks" ->
            IF TasksOfBoard(ts, b) = {} THEN World(bs, ts, nt, Finish(c, 500))
            ELSE World(bs, deleteTasksOfBoard(ts, b), nt,
                       [c EXCEPT !.pc = "deleteBoard",
                                 !.done = Append(@, "deleteTasks")])
       [] c.pc = "deleteBoard" ->
            World(Del(bs, b), ts, nt,
                  [Finish(c, 200) EXCEPT !.done = Append(@, "deleteBoard")])
       [] OTHER -> World(bs, ts, nt, c)

\* router.delete('/boards/:id'), one await per step: findById, deleteMany,
\* findByIdAndDelete
deleteBoardStep(bs, ts, nt, c) ==
  LET b == c.board
  IN CASE c.pc = "find" ->
            IF b \notin DOMAIN bs THEN World(bs, ts, nt, Finish(c, 404))
            ELSE World(bs, ts, nt, [c EXCEPT !.pc = "deleteTasks"])
       [] c.pc = "deleteTasks" ->
            World(bs, deleteTasksOfBoard(ts, b), nt,
                  [c EXCEPT !.pc = "deleteBoard",
                            !.done = Append(@, "deleteTasks")])
       [] c.pc = "deleteBoard" ->
            World(Del(bs, b), ts, nt,
                  [Finish(c, 200) EXCEPT !.done = Append(@, "deleteBoard")])
       [] OTHER -> World(bs, ts, nt, c)

\* app.delete('/api/board/:boardId'), one await per step: findOne,
\* deleteMany, deleteOne
apiDeleteBoardStep(bs, ts, nt, c) ==
  LET rawBoardId == stripNonHex(c.board)
      boardId == oidOfHex(rawBoardId)
  IN CASE c.pc = "find" ->
            IF Len(rawBoardId) # IdLen THEN World(bs, ts, nt, Finish(c, 400))
            ELSE IF boardId \notin DOMAIN bs
            THEN World(bs, ts, nt, Finish(c, 404))
            ELSE World(bs, ts, nt,
                       [c EXCEPT !.pc = "deleteTasks", !.board = boardId])
       [] c.pc = "deleteTasks" ->
            World(bs, deleteTasksOfBoard(ts, c.board), nt,
                  [c EXCEPT !.pc = "deleteBoard",
                            !.done = Append(@, "deleteTasks")])
       [] c.pc = "deleteBoard" ->
            \* deletedCount === 0 when the board is gone meanwhile
            IF c.board \notin DOMAIN bs THEN World(bs, ts, nt, Finish(c, 500))
            ELSE World(Del(bs, c.board), ts, nt,
                       [Finish(c, 200) EXCEPT !.done = Append(@, "deleteBoard")])
       [] OTHER -> World(bs, ts, nt, c)

\* the first DeleteBoard of the board, through either route
FirstDeleteBoard ==
  /\ inflight[2].pc = "idle"
  /\ \/ Start(1, Request("DeleteBoard", "boardRoutes", NoId, BoardIdOf(1), <<>>))
     \/ \E id \in {BoardIdOf(1), Quoted(BoardIdOf(1))} :
          Start(1, Request("DeleteBoard", "server", NoId, id, <<>>))

StepDeleteBoard(p) ==
  /\ Running(p)
  /\ inflight[p].op = "DeleteBoard"
  /\ inflight[p].impl = "boardRoutes"
  /\ Advance(p, deleteBoardStep(boards, tasks, nextTask, inflight[p]))

StepApiDeleteBoard(p) ==
  /\ Running(p)
  /\ inflight[p].op = "DeleteBoard"
  /\ inflight[p].impl = "server"
  /\ Advance(p, apiDeleteBoardStep(boards, tasks, nextTask, inflight[p]))

InterruptDeleteBoard ==
  /\ inflight[1].op = "DeleteBoard"
  /\ Stop(1)

\* a task created on the board between the stopped run and the retry
CreateTaskBetween ==
  /\ inflight[1].pc = "stopped"
  /\ inflight[2].pc = "idle"
  /\ nextTask < MaxTasks
  /\ \E col \in DefaultColumnIds :
       /\ boards' = createTask(boards, tasks, nextBoard, nextTask, TRUE,
                               BoardIdOf(1), col).boards
       /\ tasks' = createTask(boards, tasks, nextBoard, nextTask, TRUE,
                              BoardIdOf(1), col).tasks
       /\ nextTask' = nextTask + 1
       /\ UNCHANGED <<nextBoard, last, inflight, now, updatedAt>>

\* the second DeleteBoard of the same board, through either route
RetryDeleteBoard ==
  /\ inflight[1].pc = "stopped"
  /\ \/ Start(2, Request("DeleteBoard", "boardRoutes", NoId, BoardIdOf(1), <<>>))
     \/ Start(2, Request("DeleteBoard", "server", NoId, BoardIdOf(1), <<>>))

NextDeleteRetry ==
  \/ FirstDeleteBoard
  \/ InterruptDeleteBoard
  \/ CreateTaskBetween
  \/ RetryDeleteBoard
  \/ \E p \in Callers : StepDeleteBoard(p) \/ StepApiDeleteBoard(p)

SpecDeleteRetry == InitMoveRace /\ [][NextDeleteRetry]_vars

\* call 1 stopped after the deleteMany and before the delete of the board,
\* and call 2, a DeleteBoard of the same board, has been answered
DeleteBoardRetried ==
  /\ inflight[1].op = "DeleteBoard"
  /\ inflight[1].pc = "stopped"
  /\ inflight[1].done = <<"deleteTasks">>
  /\ inflight[2].op = "DeleteBoard"
  /\ inflight[2].pc = "done"

\* C20: DeleteBoard is safe to retry: when a DeleteBoard(b) run has stopped
\* after the tasks of b were deleted and before the Board document was
\* deleted, a second DeleteBoard(b) succeeds and ends with no Board b and no
\* Task with boardId = b.
DeleteBoardRetrySafe ==
  DeleteBoardRetried =>
    /\ inflight[2].resp = 200
    /\ BoardIdOf(1) \notin DOMAIN boards
    /\ TasksOfBoard(tasks, BoardIdOf(1)) = {}

\* a retried DeleteBoard that had a task, created after the stop, to delete
DeleteBoardRetryWitness ==
  /\ DeleteBoardRetried
  /\ inflight[2].resp = 200
  /\ nextTask = MaxTasks
  /\ BoardIdOf(1) \notin DOMAIN boards

\* C21: an UpdateTask that changes a task's columnId keeps the board's index
\* tracking it: after the update completes, the task id is in the taskIds
\* of the column named by the new columnId and in no other column of the
\* board.
UpdateTaskTracksColumn ==
  [][ ( /\ last'.op = "UpdateTask"
        /\ last'.resp = 200
        /\ last'.task \in DOMAIN tasks
        /\ tasks[last'.task].columnId # last'.col
        /\ tasks[last'.task].boardId \in DOMAIN boards
        /\ last'.col \in ColumnIds(tasks[last'.task].boardId) )
      => LET t == last'.task
             cols == boards'[tasks'[t].boardId].columns
         IN /\ Listed(cols, WithId(cols, tasks'[t].columnId), t) = 1
            /\ Listed(cols, Indexes(cols), t) = 1 ]_vars

(***************************************************************************)
(* UpdateTask with the fields a request body can carry.                    *)
(***************************************************************************)
\* router.put('/tasks/:id') of the revision that converts updates.boardId
updateTaskMatching(bs, ts, nb, nt, t, rawBoard, col) ==
  LET call == Call("UpdateTask", "taskRoutesMatching")
  IN IF Len(rawBoard) > 0 /\ ~isValidObjectId(rawBoard)
     THEN Outcome(bs, ts, nb, nt, [call EXCEPT !.resp = 400])
     ELSE IF t \notin DOMAIN ts
     THEN Outcome(bs, ts, nb, nt, [call EXCEPT !.resp = 404])
     ELSE Outcome(bs,
                  [ts EXCEPT ![t].boardId = IF Len(rawBoard) = 0 THEN @
                                            ELSE oidOfHex(rawBoard),
                             ![t].columnId = IF Len(col) = 0 THEN @ ELSE col],
                  nb, nt,
                  [call EXCEPT !.resp = 200, !.board = ts[t].boardId,
                               !.task = t, !.col = col,
                               !.writes = <<"updateTask">>])

\* boardId of an update body: absent, an issued board's id, that id in
\* quotes, a string that is no id
UpdateBoardIdRequests ==
  {<<>>, S_nope} \cup IssuedBoardIds
    \cup {Quoted(b) : b \in IssuedBoardIds \cap {BoardIdOf(1)}}

UpdateColumnRequests == {<<>>, S_column3}

UpdateTaskFields ==
  \E t \in IssuedTaskIds \cup {GhostTaskId}, b \in UpdateBoardIdRequests,
     col \in UpdateColumnRequests :
    Apply(updateTask(boards, tasks, nextBoard, nextTask, t, b, col))

UpdateTaskMatching ==
  \E t \in IssuedTaskIds \cup {GhostTaskId}, b \in UpdateBoardIdRequests,
     col \in UpdateColumnRequests :
    Apply(updateTaskMatching(boards, tasks, nextBoard, nextTask, t, b, col))

\* the stores after POST /boards, POST /boards and POST /tasks on the first
\* board
TwoBoardsWithTask(col) ==
  LET b == createBoard(EmptyCollection, EmptyCollection, 0, 0, TRUE, <<>>)
      d == createBoard(b.boards, b.tasks, b.nextBoard, b.nextTask, TRUE, <<>>)
  IN createTask(d.boards, d.tasks, d.nextBoard, d.nextTask, TRUE,
                BoardIdOf(1), col)

InitUpdate ==
  /\ \E col \in DefaultColumnIds :
       /\ boards = TwoBoardsWithTask(col).boards
       /\ tasks = TwoBoardsWithTask(col).tasks
  /\ nextBoard = 2
  /\ nextTask = 1
  /\ last = Call("init", "none")
  /\ inflight = <<>>
  /\ now = 0
  /\ updatedAt = <<>>

NextUpdate ==
  \/ UpdateTaskFields
  \/ UpdateTaskMatching
  \/ MoveTask

SpecUpdate == InitUpdate /\ [][NextUpdate]_vars

\* C22: no operation changes the boardId of an existing Task: after any
\* sequence of UpdateTask, MoveTask and other calls, every Task's boardId
\* equals the boardId it was created with.  Task ids are never issued
\* twice, so it is enough that no step changes the boardId of a task that
\* exists before and after it.
TaskBoardIdImmutable ==
  [][ \A t \in DOMAIN tasks \cap DOMAIN tasks' :
        tasks'[t].boardId = tasks[t].boardId ]_vars

(***************************************************************************)
(* The board routes with UpdateBoard.                                      *)
(***************************************************************************)
\* columns of an update body: none, one column, two columns with one id,
\* a column without id and title
UpdateColumnsRequests ==
  { <<>>,
    <<InCol(S_column1, S_ToDo)>>,
    <<InCol(S_column1, S_ToDo), InCol(S_column1, S_Done)>>,
    <<InCol(<<>>, <<>>)>> }

UpdateBoard ==
  \E b \in IssuedBoardIds, cols \in UpdateColumnsRequests :
    Apply(updateBoard(boards, tasks, nextBoard, nextTask, b, cols))

NextBoards ==
  \/ CreateBoard
  \/ UpdateBoard
  \/ DeleteBoard
  \/ CreateTask
  \/ DeleteTask

SpecBoards == Init /\ [][NextBoards]_vars

\* C23: every persisted Board has at least one column in every reachable
\* state: after CreateBoard (columns omitted, empty or supplied) and after
\* any sequence of UpdateBoard and task operations, the board's columns
\* list is non-empty.
BoardHasColumns ==
  \A b \in DOMAIN boards : Len(boards[b].columns) >= 1

\* C24: column ids are unique within a board in every reachable state:
\* after CreateBoard with any caller-supplied columns (those whose missing
\* id is assigned as column-<index+1> included) and after UpdateBoard, no
\* two columns of one board have the same id.
ColumnIdsUnique ==
  \A b \in DOMAIN boards :
    \A i, j \in Indexes(boards[b].columns) :
      boards[b].columns[i].id = boards[b].columns[j].id => i = j

(***************************************************************************)
(* The normalizers on raw input of any shape.                              *)
(***************************************************************************)
\* paddings that may themselves be hex characters
AnyPadChars == {"'", "-", "a", "F"}

AnyPads == UNION {[1..n -> AnyPadChars] : n \in 0..MaxPad}

Repeat(c, n) == [i \in 1..n |-> c]

\* raw bodies: a lowercase id, an uppercase id, 12 hex characters, 3 hex
\* characters, 24 and 25 hex characters split by a dash
RawBodies ==
  { [i \in 1..IdLen |-> IF i % 2 = 0 THEN DigitChars[(i % 10) + 1]
                        ELSE LowerChars[(i % 6) + 1]],
    Repeat("F", IdLen),
    Repeat("a", ByteLen),
    Repeat("b", 3),
    Repeat("a", 12) \o <<"-">> \o Repeat("b", 12),
    Repeat("a", 12) \o <<"-">> \o Repeat("b", 13) }

InitNormalizeAny ==
  /\ boards = EmptyCollection
  /\ tasks = EmptyCollection
  /\ nextBoard = 0
  /\ nextTask = 0
  /\ inflight = <<>>
  /\ now = 0
  /\ updatedAt = <<>>
  /\ \E p \in AnyPads, s \in RawBodies, q \in AnyPads :
       last = [op |-> "input", p |-> p, s |-> s, q |-> q, out |-> <<>>]

\* the boardId setter of the Task schema and the cast that follows it
SafeObjectId ==
  /\ last.op = "input"
  /\ last' = [last EXCEPT !.op = "safeObjectId",
                          !.out = safeObjectId(last.p \o last.s \o last.q)]
  /\ UNCHANGED <<boards, tasks, nextBoard, nextTask, inflight, now, updatedAt>>

NextNormalizeAny ==
  \/ CleanObjectIdString
  \/ ToObjectId
  \/ SafeObjectId

SpecNormalizeAny == InitNormalizeAny /\ [][NextNormalizeAny]_vars

RawInput == last.p \o last.s \o last.q

Canonical(id) ==
  /\ Len(id) = IdLen
  /\ \A i \in 1..Len(id) : IsHexChar(id[i]) /\ id[i] \notin Range(UpperChars)

\* C25: the normalizer returns either InvalidIdentifier or a string of
\* exactly 24 lowercase hex characters, never a string of another length or
\* one containing uppercase letters; input with fewer than 24 hex digits,
\* or with more than 24 hex digits and no contiguous 24-hex run, is
\* rejected.
NormalizerCanonical ==
  last.op \in {"cleanObjectIdString", "toObjectId"} =>
    /\ last.out = NoId \/ Canonical(last.out)
    /\ Len(stripNonHex(RawInput)) < IdLen => last.out = NoId
    /\ (Len(stripNonHex(RawInput)) > IdLen /\ hexMatchAt(RawInput) = 0)
         => last.out = NoId

\* what the two-step order gives for raw, letter case aside
TwoSteps(raw) ==
  IF hexMatchAt(raw) > 0
  THEN toLowerCase(SubSeq(raw, hexMatchAt(raw), hexMatchAt(raw) + IdLen - 1))
  ELSE IF Len(stripNonHex(raw)) = IdLen THEN toLowerCase(stripNonHex(raw))
  ELSE NoId

\* C26: normalization follows the two-step order: when the raw input
\* contains a contiguous run of 24 hex characters, that run is returned
\* whatever other characters (hex or not) surround it, and only otherwise
\* are the non-hex characters stripped and the result accepted if it is
\* exactly 24 long.  This holds for cleanObjectIdString, for toObjectId and
\* for the Task boardId setter.
NormalizeTwoSteps ==
  last.op \in {"cleanObjectIdString", "toObjectId", "safeObjectId"} =>
    toLowerCase(last.out) = TwoSteps(RawInput)

(***************************************************************************)
(* The updatedAt of the boards.  The clock now and the updatedAt of each   *)
(* board are followed by the specification of this section only.           *)
(***************************************************************************)
MaxTime == 3

\* whether the update document of a board write carries updatedAt with the
\* current time: taskRoutes.js 42, 97, 145, 160; boardRoutes.js 178; the
\* pre-save hook of Board.js; server.js 827, and not server.js 796-799 nor
\* server.js 1742-1747
setsUpdatedAt(impl, write) ==
  \/ impl = "taskRoutes" /\ write \in {"pushBoard", "pullBoard"}
  \/ impl = "boardRoutes" /\ write \in {"saveBoard", "updateBoard"}
  \/ impl = "server" /\ write = "pushBoard"

\* updatedAt of the boards after a call handled at time at
updatedAtAfter(o, at) ==
  [b \in DOMAIN o.boards |->
     IF /\ b = o.last.board
        /\ \E i \in 1..Len(o.last.writes) :
             setsUpdatedAt(o.last.impl, o.last.writes[i])
     THEN at
     ELSE IF b \in DOMAIN updatedAt THEN updatedAt[b] ELSE at]

\* a handler run to completion at the next tick of the clock
ApplyAt(outcome) ==
  \E o \in {outcome} :
    /\ now < MaxTime
    /\ Bounded(o.boards)
    /\ o.nextBoard <= MaxBoards
    /\ o.nextTask <= MaxTasks
    /\ boards' = o.boards
    /\ tasks' = o.tasks
    /\ nextBoard' = o.nextBoard
    /\ nextTask' = o.nextTask
    /\ last' = o.last
    /\ now' = now + 1
    /\ updatedAt' = updatedAtAfter(o, now + 1)
    /\ UNCHANGED inflight

InitStamps ==
  /\ \E col \in DefaultColumnIds :
       /\ boards = BoardWithTask(col).boards
       /\ tasks = BoardWithTask(col).tasks
  /\ nextBoard = 1
  /\ nextTask = 1
  /\ last = Call("init", "none")
  /\ inflight = <<>>
  /\ now = 0
  /\ updatedAt = [b \in {BoardIdOf(1)} |-> 0]

UpdateBoardAt ==
  \E b \in IssuedBoardIds, cols \in UpdateColumnsRequests :
    ApplyAt(updateBoard(boards, tasks, nextBoard, nextTask, b, cols))

CreateTaskAt ==
  /\ nextTask < MaxTasks
  /\ \E col \in ColumnRequests :
       ApplyAt(createTask(boards, tasks, nextBoard, nextTask, TRUE,
                          BoardIdOf(1), col))

SimpleCreateTaskAt ==
  /\ nextTask < MaxTasks
  /\ \E col \in ColumnRequests :
       ApplyAt(simpleCreateTask(boards, tasks, nextBoard, nextTask, TRUE,
                                BoardIdOf(1), col))

MoveTaskAt ==
  \E t \in IssuedTaskIds, col \in ColumnRequests :
    ApplyAt(moveTask(boards, tasks, nextBoard, nextTask, t, col))

DeleteTaskAt ==
  \E t \in IssuedTaskIds :
    ApplyAt(deleteTask(boards, tasks, nextBoard, nextTask, t))

ApiDeleteTaskAt ==
  \E t \in IssuedTaskIds :
    ApplyAt(apiDeleteTask(boards, tasks, nextBoard, nextTask, t))

NextStamps ==
  \/ UpdateBoardAt
  \/ CreateTaskAt
  \/ SimpleCreateTaskAt
  \/ MoveTaskAt
  \/ DeleteTaskAt
  \/ ApiDeleteTaskAt

SpecStamps == InitStamps /\ [][NextStamps]_vars

\* C27: every operation that mutates a Board document, namely UpdateBoard
\* and each column-list change made by CreateTask, MoveTask and DeleteTask,
\* sets that Board's updatedAt to the time of the mutation, so after any
\* such write the board's updatedAt is not earlier than the time the write
\* was issued.
BoardMutationSetsUpdatedAt ==
  [][ \A b \in DOMAIN boards \cap DOMAIN boards' :
        boards'[b] # boards[b] => updatedAt'[b] >= now' ]_vars

(***************************************************************************)
(* DeleteBoard and CreateTask on one board, running concurrently.          *)
(***************************************************************************)
\* no call has been answered yet: a call that starts now overlaps the other
NoneAnswered == \A q \in Callers : inflight[q].pc # "done"

StartDeleteBoardRace ==
  /\ NoneAnswered
  /\ \/ Start(1, Request("DeleteBoard", "boardRoutes", NoId, BoardIdOf(1), <<>>))
     \/ Start(1, Request("DeleteBoard", "server", NoId, BoardIdOf(1), <<>>))

StartCreateTaskRace ==
  /\ NoneAnswered
  /\ \E col \in DefaultColumnIds :
       \/ Start(2, Request("CreateTask", "taskRoutes", NoId, BoardIdOf(1), col))
       \/ Start(2, Request("CreateTask", "server", NoId, BoardIdOf(1), col))

NextCascadeRace ==
  \/ StartDeleteBoardRace
  \/ StartCreateTaskRace
  \/ \E p \in Callers :
       \/ StepDeleteBoard(p)
       \/ StepApiDeleteBoard(p)
       \/ StepCreateTask(p)
       \/ StepSimpleCreateTask(p)

SpecCascadeRace == InitMoveRace /\ [][NextCascadeRace]_vars

\* C28: cascade under interleaving: for a DeleteBoard(b) and a CreateTask on
\* b running concurrently, under every interleaving of their store calls,
\* once both have finished and DeleteBoard reported success, no Task with
\* boardId = b exists.
DeleteBoardCascadesUnderRace ==
  ( /\ AllDone
    /\ inflight[1].op = "DeleteBoard"
    /\ inflight[1].resp = 200
    /\ inflight[2].op = "CreateTask" )
  => TasksOfBoard(tasks, BoardIdOf(1)) = {}

(***************************************************************************)
(* DeleteTask and MoveTask of one task, running concurrently.              *)
(***************************************************************************)
StartDeleteTaskRace ==
  /\ NoneAnswered
  /\ Start(1, Request("DeleteTask", "taskRoutes", TaskIdOf(1), NoId, <<>>))

StartMoveTaskRace ==
  /\ NoneAnswered
  /\ \E col \in DefaultColumnIds :
       Start(2, Request("MoveTask", "taskRoutes", TaskIdOf(1), NoId, col))

NextDeleteMoveRace ==
  \/ StartDeleteTaskRace
  \/ StartMoveTaskRace
  \/ \E p \in Callers : StepDeleteTask(p) \/ StepMoveTask(p)

SpecDeleteMoveRace == InitMoveRace /\ [][NextDeleteMoveRace]_vars

\* C29: for a DeleteTask(t) and a MoveTask(t, c) running concurrently, under
\* every interleaving of their store calls, once both have finished no Task
\* document t exists and t's id is in no column's taskIds of its board.
DeleteMoveRaceRemoves ==
  ( /\ AllDone
    /\ inflight[1].op = "DeleteTask"
    /\ inflight[2].op = "MoveTask" )
  => /\ TaskIdOf(1) \notin DOMAIN tasks
     /\ \A b \in DOMAIN boards :
          Listed(boards[b].columns, Indexes(boards[b].columns), TaskIdOf(1)) = 0

(***************************************************************************)
(* connectWithRetry.  The record last holds retryCount, the pending timer, *)
(* the attempts logged and the delays waited.                              *)
(***************************************************************************)
MAX_RETRIES == 3

NoTimer == 0

\* the messages the catch handler tells apart, and any other
ConnectErrors == {"Authentication failed", "getaddrinfo ENOTFOUND",
                  "connection timed out", "other"}

\* setTimeout(connectWithRetry, 1000) pending; production is
\* process.env.NODE_ENV === 'production'
InitConnect ==
  /\ boards = EmptyCollection
  /\ tasks = EmptyCollection
  /\ nextBoard = 0
  /\ nextTask = 0
  /\ inflight = <<>>
  /\ now = 0
  /\ updatedAt = <<>>
  /\ \E production \in BOOLEAN :
       last = [op |-> "connectWithRetry", production |-> production,
               pc |-> "timer", retryCount |-> 0, timer |-> 1000,
               attempts |-> <<>>, errors |-> <<>>, waits |-> <<>>]

\* the timer fires: connectWithRetry logs the attempt and calls
\* mongoose.connect
ConnectAttempt ==
  /\ last.op = "connectWithRetry"
  /\ last.pc = "timer"
  /\ last' = [last EXCEPT !.pc = "connecting", !.timer = NoTimer,
                          !.attempts = Append(@, [n |-> last.retryCount + 1,
                                                  of |-> MAX_RETRIES + 1])]
  /\ UNCHANGED <<boards, tasks, nextBoard, nextTask, inflight, now, updatedAt>>

\* the then branch of mongoose.connect
ConnectSucceeds ==
  /\ last.op = "connectWithRetry"
  /\ last.pc = "connecting"
  /\ last' = [last EXCEPT !.pc = "connected"]
  /\ UNCHANGED <<boards, tasks, nextBoard, nextTask, inflight, now, updatedAt>>

\* the catch branch of mongoose.connect
ConnectFails ==
  /\ last.op = "connectWithRetry"
  /\ last.pc = "connecting"
  /\ \E err \in ConnectErrors :
       LET retryCount == last.retryCount + 1
           retryDelay == (2 ^ retryCount) * 1000
       IN last' = IF retryCount < MAX_RETRIES
                  THEN [last EXCEPT !.retryCount = retryCount,
                                    !.errors = Append(@, err),
                                    !.pc = "timer", !.timer = retryDelay,
                                    !.waits = Append(@, retryDelay)]
                  ELSE [last EXCEPT !.retryCount = retryCount,
                                    !.errors = Append(@, err),
                                    !.pc = IF last.production THEN "offline"
                                           ELSE "exited"]
  /\ UNCHANGED <<boards, tasks, nextBoard, nextTask, inflight, now, updatedAt>>

NextConnect ==
  \/ ConnectAttempt
  \/ ConnectSucceeds
  \/ ConnectFails

SpecConnect == InitConnect /\ [][NextConnect]_vars

\* C30: connectWithRetry terminates when every connection attempt fails: it
\* makes MAX_RETRIES + 1 = 4 attempts in total, as its log line
\* 'attempt n/4' states, waiting 2^k seconds before the attempt that
\* follows the k-th failure, and after the last failure it schedules no
\* further attempt.
ConnectMakesFourAttempts ==
  last.pc \in {"offline", "exited"} =>
    /\ Len(last.attempts) = MAX_RETRIES + 1
    /\ Len(last.errors) = Len(last.attempts)
    /\ \A k \in 1..Len(last.waits) : last.waits[k] = (2 ^ k) * 1000
    /\ last.timer = NoTimer
====
